------------------------------ MODULE Spec2Model ------------------------------
(***************************************************************************)
(* The payment settlement pipeline of the coffee XRPL platform:            *)
(* PaymentFlowWidget.execute_payment (payment_app/ui_payment/              *)
(* payment_flow.py), the ledger client it calls (core/xrpl_client.py),     *)
(* the scoped SQLAlchemy session it writes through (core/database.py) and  *)
(* the tables it writes (core/models.py).                                  *)
(*                                                                         *)
(* execute_payment runs on the GUI thread.  Its position is pc; at         *)
(* pc = "returned" it has returned to the event loop and what it did is    *)
(* still on record, until the next event is handled.                       *)
(*                                                                         *)
(* Spec explores the whole pipeline with its faults at the default price.  *)
(* SpecAmounts varies weight, price and currency; SpecGenerator calls the  *)
(* message generator (core/iso_generator.py) on its own; SpecProducers     *)
(* adds the producer directory (payment_app/ui_payment/producer_view.py).  *)
(* SpecIdentifiers and SpecStatement call the identifier generator and     *)
(* generate_camt053 on their own; SpecAuth is signing in and out           *)
(* (auth_flow.py, main_payment.py, dashboard.py); SpecExport adds the      *)
(* export of the stored messages (admin_app/ui_admin/audit_view.py).       *)
(***************************************************************************)
EXTENDS Integers, Sequences, FiniteSets, TLC

(***************************************************************************)
(* Bounds of the model.                                                    *)
(***************************************************************************)
\* number of confirmed execute_payment runs explored
MaxRuns == 2
\* seconds the wall clock advances
MaxClock == 1
\* size of the space generate_uetr draws from (uuid4 is a random draw)
NumUetr == 2
\* number of documents a caller of the generator asks for
MaxDocs == 2
\* number of identifiers a caller of the generator asks for
MaxIds == 3

\* self.current_producer = None
None == 0

\* the strings generate_uetr can return (str(uuid.uuid4())), the n-th of them
Uuid(n) == <<"uuid", n>>
UETRS == {Uuid(n) : n \in 1..NumUetr}
\* QDoubleSpinBox weight_input: range 0.01 .. 10000.0 kg, 2 decimals; the
\* model counts hundredths of a kilogram.
WeightMin == 1
WeightMax == 1000000
\* values a caller or the operator hands to weight_input.setValue
WeightInputs == {0, 250}

\* QDoubleSpinBox price_input: range 0.01 .. 10000.0 MXN/kg, 2 decimals,
\* setValue(50.0); the model counts centavos.
PriceDefault == 5000
\* a price the operator types in place of the default: 33.33 MXN/kg
PriceInputs == {3333}

\* currency_combo items, first word of each
Currencies == {"XRP", "USDC", "RLUSD", "MXN"}
\* the items the operator picks while the whole pipeline is explored: the
\* native one and a simulated one
CurrencyInputs == {"XRP", "USDC"}

\* MOCK_EXCHANGE_RATES, MXN per token, in tenths
MOCK_EXCHANGE_RATES == [XRP |-> 200, USDC |-> 175, RLUSD |-> 175, MXN |-> 10]

(***************************************************************************)
(* Pure helpers of the code.                                               *)
(***************************************************************************)

\* QDoubleSpinBox.setValue clamps to the range set by setRange.
setValue(v) == IF v < WeightMin THEN WeightMin ELSE IF v > WeightMax THEN WeightMax ELSE v

\* execute_payment, the two guards ahead of everything else.
InputRejected_NoProducerCheck(producer, w) == w <= 0
InputRejected(producer, w) == producer = None \/ w <= 0

\* "Only XRP is actually sent; others are simulated"
IsNative(c) == c = "XRP"

\* tx_hash of a simulated payment: f"SIMULATED_{currency}_{now:%Y%m%d%H%M%S}"
SimulatedHash_NoPrefix(c, now) == <<c, now>>
SimulatedHash(c, now) == <<"SIMULATED", c, now>>

\* a transaction hash as the ledger returns it (64 hex digits), the n-th one
LedgerHash(n) == <<"HASH", n>>

\* `if not tx_result['validated']: raise`
SubmissionAccepted_Unchecked(tx_result) == TRUE
SubmissionAccepted(tx_result) == tx_result.validated

\* status=PaymentStatus.COMPLETED if currency == "XRP" else PaymentStatus.PENDING
StatusFor_AlwaysCompleted(c) == "completed"
StatusFor(c) == IF c = "XRP" THEN "completed" ELSE "pending"

\* the Payment(...) row built by execute_payment; id is assigned by flush.
\* (Payment_HashFromUetr fills xrpl_tx_hash from the reference, not from tx_hash.)
Payment_HashFromUetr(id, u, h, amt, c, mxn, prod, op) ==
    [id |-> id, uetr |-> u, xrpl_tx_hash |-> <<"HASH", u[2]>>, amount |-> amt,
     currency |-> c, amount_mxn |-> mxn, status |-> StatusFor(c),
     producer_id |-> prod, operator_id |-> op]
Payment(id, u, h, amt, c, mxn, prod, op) ==
    [id |-> id, uetr |-> u, xrpl_tx_hash |-> h, amount |-> amt,
     currency |-> c, amount_mxn |-> mxn, status |-> StatusFor(c),
     producer_id |-> prod, operator_id |-> op]

\* the Delivery(...) row built by execute_payment
Delivery(pid, w, p, total) ==
    [payment_id |-> pid, weight_kg |-> w, price_per_kg |-> p, total_mxn |-> total]

\* the IsoMessage(...) rows built by execute_payment
\* (IsoMessage_AlwaysPacs008 files every document under one message type.)
IsoMessage_AlwaysPacs008(pid, type, xml) ==
    [payment_id |-> pid, message_type |-> "pacs.008", xml_content |-> xml]
IsoMessage(pid, type, xml) ==
    [payment_id |-> pid, message_type |-> type, xml_content |-> xml]

(***************************************************************************)
(* Amounts.  weight is in hundredths of a kg and price in centavos per kg, *)
(* so weight * price counts ten-thousandths of a peso exactly.  A token    *)
(* amount is an exact fraction <<"frac", numerator, denominator>> in       *)
(* lowest terms.                                                           *)
(***************************************************************************)

\* n / d rounded to the nearest integer, ties to even (round, format ".2f")
RoundDiv(n, d) ==
    LET q == n \div d
        r == n % d
    IN IF 2 * r < d THEN q
       ELSE IF 2 * r > d THEN q + 1
       ELSE IF q % 2 = 0 THEN q ELSE q + 1

\* core.utils.calculate_payment_total: round(weight_kg * price_per_kg, 2), in
\* ten-thousandths of a peso
calculate_payment_total(w, p) == RoundDiv(w * p, 100) * 100

RECURSIVE GCD(_, _)
GCD(a, b) == IF b = 0 THEN a ELSE GCD(b, a % b)

Frac(n, d) == <<"frac", n \div GCD(n, d), d \div GCD(n, d)>>

\* convert_mxn_to_token: amount_mxn / rate
convert_mxn_to_token(amount_mxn, c) ==
    Frac(amount_mxn * 10, 10000 * MOCK_EXCHANGE_RATES[c])

\* f"{amount:.2f}": the amount in hundredths of a token
Format2(amount) == <<"dec2", RoundDiv(100 * amount[2], amount[3])>>

(***************************************************************************)
(* Accounts.  An address is <<"addr", first character, length, serial>>.   *)
(***************************************************************************)
Address(first, len, n) == <<"addr", first, len, n>>

\* XRPLClient.validate_address
validate_address(address) ==
    address[2] = "r" /\ 25 <= address[3] /\ address[3] <= 35

\* save_new_producer, line 262: `not xrpl.startswith('r') or len(xrpl) < 25`
\* is refused
AddressAccepted(xrpl) == xrpl[2] = "r" /\ xrpl[3] >= 25

\* addresses an operator types into the new-producer form
AddressInputs ==
    {Address("r", 34, 2), Address("r", 36, 3), Address("x", 34, 4), Address("r", 24, 5)}

\* a text typed into seed_input: the n-th secret, with its first character
\* and its length
Seed(n, first, len) == <<"seed", n, first, len>>

\* the seed typed into AuthFlowDialog and handed to PaymentFlowWidget
xrpl_seed == Seed(1, "s", 29)

\* XRPLClient.get_wallet_from_seed: the wallet of a seed, with its address
get_wallet_from_seed(seed) == [seed |-> seed, address |-> Address("r", 34, seed[2] - 1)]

\* a password typed into a password field: the n-th text, with its length
Password(n, len) == <<"pw", n, len>>

\* core.security.hash_password: the Argon2 hash of a password
hash_password(password) == <<"argon2", password[2], password[3]>>

\* core.security.verify_password: ph.verify(password_hash, password), False
\* on a mismatch
\* (verify_password_AnyPassword lets every password through.)
verify_password_AnyPassword(password_hash, password) == TRUE
verify_password(password_hash, password) == password_hash = hash_password(password)

\* core.security.validate_xrpl_seed
validate_xrpl_seed(seed) == seed[3] = "s" /\ seed[4] >= 25

\* a text column that is NULL, a text field that is None
Null == <<"null">>

\* a text typed into id_input, stripped: the n-th username, with its length
Login(n, len) == <<"login", n, len>>

\* a row of the users table; the operator with id n registered the address
\* of the wallet of the n-th seed
UserRow(id, role, is_active, password_hash) ==
    [id |-> id, username |-> Login(id, 6), role |-> role, is_active |-> is_active,
     full_name |-> <<"user", id>>,
     xrpl_address |-> get_wallet_from_seed(Seed(id, "s", 29)).address,
     password_hash |-> password_hash]

\* the authenticated User row (role operator); verify_wallet accepted
\* xrpl_seed because the address of its wallet is the registered one, and
\* verify_password stored or matched the hash of the password
operator == UserRow(1, "operator", TRUE, hash_password(Password(1, 8)))

\* what the checks of AuthFlowDialog last saw (a record kept for the
\* properties; the dialog keeps none)
NoChecks ==
    [id |-> [user |-> None, role |-> "none", is_active |-> FALSE],
     password |-> [user |-> None, how |-> "none", password |-> Password(0, 0)],
     wallet |-> [user |-> None, seed |-> Null], went_back |-> FALSE]

\* AuthFlowDialog.__init__ (auth_flow.py 20-34) and exec(): the first page
AuthFlowDialog ==
    [stack |-> 0, user_db_id |-> None, user_xrpl_address |-> Null,
     user_password_hash |-> Null, authenticated_user |-> None, xrpl_seed |-> Null,
     result |-> "exec", seen |-> NoChecks]

\* the dialog as it is once `operator` has passed its three steps with xrpl_seed
Authenticated ==
    [stack |-> 2, user_db_id |-> operator.id, user_xrpl_address |-> operator.xrpl_address,
     user_password_hash |-> operator.password_hash, authenticated_user |-> operator.id,
     xrpl_seed |-> xrpl_seed, result |-> "accepted",
     seen |-> [id |-> [user |-> operator.id, role |-> "operator", is_active |-> TRUE],
               password |-> [user |-> operator.id, how |-> "verified",
                             password |-> Password(1, 8)],
               wallet |-> [user |-> operator.id, seed |-> xrpl_seed],
               went_back |-> FALSE]]

\* main() before a dashboard exists
NoDashboard ==
    [window |-> "none", operator |-> None, dashboard_seed |-> Null, widget_seed |-> Null]

\* PaymentDashboard.__init__ (dashboard.py 22-26) keeps the seed and hands it
\* to PaymentFlowWidget (line 66), which keeps it too (payment_flow.py 27-33)
PaymentDashboard(op, seed) ==
    [window |-> "open", operator |-> op, dashboard_seed |-> seed, widget_seed |-> seed]

\* a row of the producers table
Producer(id, address) == [id |-> id, name |-> <<"producer", id>>, xrpl_address |-> address]

(***************************************************************************)
(* core.iso_generator.  A document is the sequence of its text-bearing     *)
(* elements and attributes in document order, each <<tag, text>>.          *)
(***************************************************************************)

\* a key that is missing from payment_data
Absent == <<"absent">>

\* generate_end_to_end_id: "E2E" + utcnow to the second + 8 hex digits of a
\* uuid4; rnd stands for the hex digits
generate_end_to_end_id(now, rnd) == <<"E2E", now, rnd>>

\* format_datetime(): utcnow to the second
format_datetime(now) == <<"time", now>>

\* a literal of the generator
Lit(text) == <<"lit", text>>

\* payment_data.get('end_to_end_id', self.generate_end_to_end_id())
GetEndToEndId(payment_data, fresh) ==
    IF payment_data.end_to_end_id = Absent THEN fresh ELSE payment_data.end_to_end_id

\* fresh is the value the call of generate_end_to_end_id in the default
\* argument returns, now the clock that format_datetime reads
generate_pacs008(payment_data, fresh, now) ==
    << <<"MsgId", payment_data.uetr>>,
       <<"CreDtTm", format_datetime(now)>>,
       <<"NbOfTxs", Lit("1")>>,
       <<"InstrId", payment_data.uetr>>,
       <<"EndToEndId", GetEndToEndId(payment_data, fresh)>>,
       <<"UETR", payment_data.uetr>>,
       <<"IntrBkSttlmAmt.Ccy", Lit(payment_data.currency)>>,
       <<"IntrBkSttlmAmt", Format2(payment_data.amount)>>,
       <<"Dbtr.Nm", payment_data.debtor_name>>,
       <<"DbtrAcct.Id", payment_data.debtor_account>>,
       <<"Cdtr.Nm", payment_data.creditor_name>>,
       <<"CdtrAcct.Id", payment_data.creditor_account>>,
       <<"XRPLTxHash", payment_data.xrpl_tx_hash>> >>

\* (generate_camt054_FreshEndToEndId ignores the end_to_end_id it is given.)
generate_camt054_FreshEndToEndId(payment_data, fresh, now) ==
    << <<"MsgId", <<"NTFCTN-", payment_data.uetr>> >>,
       <<"CreDtTm", format_datetime(now)>>,
       <<"Ntfctn.Id", payment_data.uetr>>,
       <<"Amt.Ccy", Lit(payment_data.currency)>>,
       <<"Amt", Format2(payment_data.amount)>>,
       <<"CdtDbtInd", Lit("CRDT")>>,
       <<"Sts", Lit("BOOK")>>,
       <<"EndToEndId", fresh>>,
       <<"UETR", payment_data.uetr>> >>
generate_camt054(payment_data, fresh, now) ==
    << <<"MsgId", <<"NTFCTN-", payment_data.uetr>> >>,
       <<"CreDtTm", format_datetime(now)>>,
       <<"Ntfctn.Id", payment_data.uetr>>,
       <<"Amt.Ccy", Lit(payment_data.currency)>>,
       <<"Amt", Format2(payment_data.amount)>>,
       <<"CdtDbtInd", Lit("CRDT")>>,
       <<"Sts", Lit("BOOK")>>,
       <<"EndToEndId", GetEndToEndId(payment_data, fresh)>>,
       <<"UETR", payment_data.uetr>> >>

\* statement_data.get('statement_id', str(uuid.uuid4())): the default is a
\* fresh uuid4
GetStatementId(statement_data, fresh) ==
    IF statement_data.statement_id = Absent THEN fresh ELSE statement_data.statement_id

\* datetime.utcnow().strftime("%Y-%m-%d"): the day of a clock reading in seconds
format_date(now) == <<"date", now \div 86400>>

\* lines 266-279: one Ntry per transaction of the list, in list order
RECURSIVE Entries(_)
Entries(transactions) ==
    IF transactions = <<>> THEN <<>>
    ELSE << <<"Ntry.Amt.Ccy", Lit(Head(transactions).currency)>>,
            <<"Ntry.Amt", Format2(Head(transactions).amount)>>,
            <<"Ntry.CdtDbtInd", Lit("CRDT")>>,
            <<"Ntry.Sts", Lit("BOOK")>> >> \o Entries(Tail(transactions))

\* generate_camt053 (lines 203-286); fresh1 and fresh2 are what the two
\* uuid4 calls of the statement_id defaults give
generate_camt053(statement_data, fresh1, fresh2, now) ==
    << <<"MsgId", GetStatementId(statement_data, fresh1)>>,
       <<"CreDtTm", format_datetime(now)>>,
       <<"Stmt.Id", GetStatementId(statement_data, fresh2)>>,
       <<"Acct.Id", statement_data.account_id>>,
       <<"Bal.Cd", Lit("CLBD")>>,
       <<"Bal.Amt.Ccy", Lit("XRP")>>,
       <<"Bal.Amt", Lit("0.00")>>,
       <<"Bal.CdtDbtInd", Lit("CRDT")>>,
       <<"Bal.Dt", format_date(now)>> >> \o Entries(statement_data.transactions)

\* no payment_data is held
NoInput == [uetr |-> Absent]

\* the text of the element tag of a document (tags used here occur once)
Text(doc, tag) == doc[CHOOSE i \in 1..Len(doc) : doc[i][1] = tag][2]

\* payments.uetr and payments.xrpl_tx_hash are unique=True
UniqueViolation_UetrOnly(row, rows) == \E r \in rows : r.uetr = row.uetr
UniqueViolation(row, rows) ==
    \E r \in rows : r.uetr = row.uetr \/ r.xrpl_tx_hash = row.xrpl_tx_hash

EmptyRows == [payments |-> {}, deliveries |-> {}, iso_messages |-> {}]

Merge(a, b) ==
    [payments |-> a.payments \cup b.payments,
     deliveries |-> a.deliveries \cup b.deliveries,
     iso_messages |-> a.iso_messages \cup b.iso_messages]

\* the scoped session: objects added and not yet flushed (new), rows written
\* inside the open transaction (flushed)
EmptySession == [new |-> EmptyRows, flushed |-> EmptyRows]

\* session.commit(): flush what is new, then make the transaction durable
Commit_PaymentsOnly(database, sess) ==
    Merge(database, [EmptyRows EXCEPT !.payments = sess.flushed.payments])
\* (Commit_Replace writes the rows of the session in place of the stored ones.)
Commit_Replace(database, sess) == Merge(sess.flushed, sess.new)
Commit(database, sess) == Merge(database, Merge(sess.flushed, sess.new))

\* close_session(): Session.remove() closes the session, which rolls back the
\* open transaction; the committed rows are what they were
close_session_Autocommit(database, sess) == Merge(database, sess.flushed)
close_session(database, sess) == database

\* core.database.close_session, line 48: Session.remove() discards the
\* session of the thread with every object it holds
\* (Remove_KeepSession leaves the session as the handler left it.)
Remove_KeepSession(sess) == sess
Remove(sess) == EmptySession

\* the QMessageBox.critical of the except clause: one title and one advice for
\* every exception, with str(e) as the detail
\* str(e) of a driver IntegrityError quotes the parameters of the INSERT.
ErrorDialog(e, params) ==
    [icon |-> "critical", title |-> "Error en Pago", detail |-> e,
     params |-> params, advice |-> {"saldo", "conexion", "direccion"}]

NoDialog == [icon |-> "none", title |-> "", detail |-> "", params |-> {}, advice |-> {}]

WarningDialog(text) ==
    [icon |-> "warning", title |-> "Error", detail |-> text, params |-> {}, advice |-> {}]

QuestionDialog(text) ==
    [icon |-> "question", title |-> text, detail |-> "", params |-> {}, advice |-> {}]

SuccessDialog(h) ==
    [icon |-> "information", title |-> "Pago Exitoso", detail |-> "ok",
     params |-> {h}, advice |-> {}]

\* audit_view.py line 331: f"{msg.message_type.value}_{msg.payment.uetr}.xml"
\* (FileName_KindOnly names a file by the kind of its message alone.)
FileName_KindOnly(message_type, reference) == <<"file", message_type, Null>>
FileName(message_type, reference) == <<"file", message_type, reference>>

\* lines 334-335: open(file_path, 'w') and write: the file of that name is
\* created or replaced
WriteFile(files, name, content) ==
    {f \in files : f.name # name} \cup {[name |-> name, content |-> content]}

\* the export directory before any export (files), and the messages the last
\* export found in the store (of)
NoExport == [files |-> {}, of |-> {}]

NoHash == <<"unset">>
NoUetr == <<"unset">>
NoEndToEndId == <<"unset">>

(***************************************************************************)
(* State.                                                                  *)
(***************************************************************************)
VARIABLES
    current_producer,  \* PaymentFlowWidget.current_producer
    weight,            \* weight_input.value(), hundredths of a kg
    price,             \* price_input.value(), centavos per kg
    currency,          \* currency_combo.currentText().split()[0]
    pc,                \* position of execute_payment
    uetr,              \* local uetr of the current or last run
    end_to_end_id,     \* local end_to_end_id of the current or last run
    tx_hash,           \* local tx_hash of the current or last run
    exc,               \* exception caught by the except clause of the run
    session,           \* the scoped session of core.database
    db,                \* committed rows of payments, deliveries, iso_messages
    producers,         \* committed rows of the producers table
    ledger,            \* transfers the ledger holds, in order of arrival
    ledgerCalls,       \* number of send_xrp_payment calls made
    ledgerOutcome,     \* what the ledger did with the submission of the run
    unknownOutcome,    \* a submission ended by an exception and was not verified since
    idsGenerated,      \* number of identifiers drawn from the generator
    clock,             \* wall clock, seconds
    dialog,            \* the last message box shown
    signals,           \* payment_completed emissions
    events,            \* what the current or last run did, in order
    entry,             \* what the run found when it was invoked
    runs,              \* confirmed runs so far
    gen_input,         \* a payment_data dict held by a caller of the generator
    generated,         \* the documents the generator returned to that caller, in order
    users,             \* committed rows of the users table
    auth,              \* the fields of AuthFlowDialog, and what its checks have seen
    app,               \* PaymentDashboard and its PaymentFlowWidget: the seed each holds
    exported,          \* the directory export_iso_messages writes into, and what it found
    issued             \* the identifiers a caller of the generator was given, in order

vars == <<current_producer, weight, price, currency, pc, uetr, end_to_end_id, tx_hash,
          exc, session, db, producers, ledger, ledgerCalls, ledgerOutcome, unknownOutcome, idsGenerated, clock,
          dialog, signals, events, entry, runs, gen_input, generated,
          users, auth, app, exported, issued>>

widget == <<current_producer, weight, price, currency>>
locals == <<uetr, end_to_end_id, tx_hash, exc>>
store == <<session, db, producers>>
ledgerSide == <<ledger, ledgerCalls, ledgerOutcome, unknownOutcome>>
caller == <<gen_input, generated>>
\* signing in and out: the users table, AuthFlowDialog, the dashboard
login == <<users, auth, app>>
\* what lives outside the payment application: the export directory of the
\* admin application and the identifiers handed to a caller of the generator
outside == <<exported, issued>>

\* ids of the rows of the producers table (the list ProducerManagementWidget shows)
Producers == {r.id : r \in producers}

\* self.current_producer, the row
ProducerRow == CHOOSE r \in producers : r.id = current_producer

\* line 218: total_mxn = weight * price, not rounded
total_mxn == weight * price

\* line 221
token_amount == convert_mxn_to_token(total_mxn, currency)

\* lines 312-322
\* (payment_data_SeedAsAccount names the debtor account by the seed.)
payment_data_SeedAsAccount ==
    [uetr |-> uetr, end_to_end_id |-> end_to_end_id, amount |-> token_amount,
     currency |-> currency, debtor_name |-> operator.full_name,
     debtor_account |-> xrpl_seed, creditor_name |-> ProducerRow.name,
     creditor_account |-> ProducerRow.xrpl_address, xrpl_tx_hash |-> tx_hash]
payment_data ==
    [uetr |-> uetr, end_to_end_id |-> end_to_end_id, amount |-> token_amount,
     currency |-> currency, debtor_name |-> operator.full_name,
     debtor_account |-> operator.xrpl_address, creditor_name |-> ProducerRow.name,
     creditor_account |-> ProducerRow.xrpl_address, xrpl_tx_hash |-> tx_hash]

\* lines 324-342: the two documents of a settlement, as rows.  Each generator
\* call evaluates its default argument, a fresh end-to-end id
MessageRows(pid) ==
    {IsoMessage(pid, "pacs.008",
                generate_pacs008(payment_data,
                                 generate_end_to_end_id(clock, idsGenerated + 1), clock)),
     IsoMessage(pid, "camt.054",
                generate_camt054(payment_data,
                                 generate_end_to_end_id(clock, idsGenerated + 2), clock))}

\* the transfer send_xrp_payment builds (lines 114-119) as the ledger holds it
Transfer(validated) ==
    [hash |-> LedgerHash(Len(ledger) + 1), memo |-> uetr, validated |-> validated,
     account |-> get_wallet_from_seed(xrpl_seed).address,
     destination |-> ProducerRow.xrpl_address]

Snapshot(invoked) ==
    [invoked |-> invoked, producer |-> current_producer, weight |-> weight,
     currency |-> currency, db |-> db, ledgerCalls |-> ledgerCalls,
     idsGenerated |-> idsGenerated]

NoEntry ==
    [invoked |-> FALSE, producer |-> None, weight |-> WeightMin, currency |-> "XRP",
     db |-> EmptyRows, ledgerCalls |-> 0, idsGenerated |-> 0]

\* the widget, the store and the ledger before the first event
WidgetStart ==
    /\ current_producer = None
    /\ weight = setValue(0)
    /\ price = PriceDefault
    /\ currency = "XRP"
    /\ pc = "idle"
    /\ uetr = NoUetr
    /\ end_to_end_id = NoEndToEndId
    /\ tx_hash = NoHash
    /\ exc = "none"
    /\ session = EmptySession
    /\ db = EmptyRows
    /\ producers = {Producer(1, Address("r", 34, 1))}
    /\ ledger = <<>>
    /\ ledgerCalls = 0
    /\ ledgerOutcome = "none"
    /\ unknownOutcome = FALSE
    /\ idsGenerated = 0
    /\ clock = 0
    /\ dialog = NoDialog
    /\ signals = 0
    /\ events = <<>>
    /\ entry = NoEntry
    /\ runs = 0

\* AuthFlowDialog has accepted `operator` and main has opened the dashboard
LoggedIn ==
    /\ users = {operator}
    /\ auth = Authenticated
    /\ app = PaymentDashboard(operator.id, xrpl_seed)

Init ==
    /\ current_producer = None
    /\ weight = setValue(0)
    /\ price = PriceDefault
    /\ currency = "XRP"
    /\ pc = "idle"
    /\ uetr = NoUetr
    /\ end_to_end_id = NoEndToEndId
    /\ tx_hash = NoHash
    /\ exc = "none"
    /\ session = EmptySession
    /\ db = EmptyRows
    /\ producers = {Producer(1, Address("r", 34, 1))}
    /\ ledger = <<>>
    /\ ledgerCalls = 0
    /\ ledgerOutcome = "none"
    /\ unknownOutcome = FALSE
    /\ idsGenerated = 0
    /\ clock = 0
    /\ dialog = NoDialog
    /\ signals = 0
    /\ events = <<>>
    /\ entry = NoEntry
    /\ runs = 0
    /\ gen_input = NoInput
    /\ generated = <<>>
    /\ users = {operator}
    /\ auth = Authenticated
    /\ app = PaymentDashboard(operator.id, xrpl_seed)
    /\ exported = NoExport
    /\ issued = <<>>

(***************************************************************************)
(* Handlers of the widget other than execute_payment.  The GUI thread is   *)
(* inside execute_payment between its entry and its return (its dialogs    *)
(* are modal), so they run only when it is not.                            *)
(***************************************************************************)

\* the event loop is free to dispatch the next event: execute_payment is a
\* slot of the GUI thread, its calls block and its dialogs are modal
\* (QMessageBox, QProgressDialog with Qt.WindowModal)
\* (Idle_NoModal lets the event loop dispatch at any time.)
Idle_NoModal == TRUE
Idle == pc \in {"idle", "returned"}

\* the record of the last run is dropped when the next event is handled
Forget ==
    /\ pc' = "idle"
    /\ uetr' = NoUetr
    /\ end_to_end_id' = NoEndToEndId
    /\ tx_hash' = NoHash
    /\ exc' = "none"
    /\ ledgerOutcome' = "none"
    /\ dialog' = NoDialog
    /\ events' = <<>>
    /\ entry' = NoEntry

\* set_producer: selects the producer, enables the groups, resets the weight
set_producer(p) ==
    /\ Idle
    /\ Forget
    /\ current_producer' = p
    /\ weight' = setValue(0)
    /\ UNCHANGED <<price, currency, store, ledger, ledgerCalls, unknownOutcome,
                   idsGenerated, clock, signals, caller, login, outside, runs>>

\* the operator edits weight_input (measurement_group is enabled by set_producer)
SetWeight(v) ==
    /\ Idle
    /\ Forget
    /\ current_producer # None
    /\ weight' = setValue(v)
    /\ UNCHANGED <<current_producer, price, currency, store, ledger, ledgerCalls,
                   unknownOutcome, idsGenerated, clock, signals, caller, login, outside, runs>>

\* the operator edits price_input (measurement_group likewise)
SetPrice(v) ==
    /\ Idle
    /\ Forget
    /\ current_producer # None
    /\ price' = setValue(v)
    /\ UNCHANGED <<current_producer, weight, currency, store, ledger, ledgerCalls,
                   unknownOutcome, idsGenerated, clock, signals, caller, login, outside, runs>>

\* the operator picks an item of currency_combo (payment_group enabled likewise)
SetCurrency(c) ==
    /\ Idle
    /\ Forget
    /\ current_producer # None
    /\ currency' = c
    /\ UNCHANGED <<current_producer, weight, price, store, ledger, ledgerCalls,
                   unknownOutcome, idsGenerated, clock, signals, caller, login, outside, runs>>

\* a second of wall-clock time passes.  A run reads the clock once, in its
\* first step after entry (Simulate), so a second that passes during a run
\* is one that passes before it or after it
Tick ==
    /\ Idle
    /\ Forget
    /\ clock < MaxClock
    /\ clock' = clock + 1
    /\ UNCHANGED <<widget, store, ledger, ledgerCalls, unknownOutcome,
                   idsGenerated, signals, caller, login, outside, runs>>

(***************************************************************************)
(* execute_payment, step by step.  The slot can be invoked in any state of *)
(* the widget once the event loop is free.                                 *)
(***************************************************************************)

\* lines 208-215: a guard fails, a warning is shown, the handler returns
ExecRejected ==
    /\ Idle
    /\ pc' = "returned"
    /\ InputRejected(current_producer, weight)
    /\ dialog' = WarningDialog(IF current_producer = None THEN "no_producer" ELSE "weight")
    /\ entry' = Snapshot(TRUE)
    /\ events' = <<>>
    /\ exc' = "none"
    /\ uetr' = NoUetr
    /\ end_to_end_id' = NoEndToEndId
    /\ tx_hash' = NoHash
    /\ ledgerOutcome' = "none"
    /\ UNCHANGED <<widget, store, ledger, ledgerCalls, unknownOutcome,
                   idsGenerated, clock, signals, caller, login, outside, runs>>

\* lines 217-237: the operator answers No to the confirmation
ExecDeclined ==
    /\ Idle
    /\ pc' = "returned"
    /\ ~InputRejected(current_producer, weight)
    /\ dialog' = NoDialog
    /\ entry' = Snapshot(TRUE)
    /\ events' = <<>>
    /\ exc' = "none"
    /\ uetr' = NoUetr
    /\ end_to_end_id' = NoEndToEndId
    /\ tx_hash' = NoHash
    /\ ledgerOutcome' = "none"
    /\ UNCHANGED <<widget, store, ledger, ledgerCalls, unknownOutcome,
                   idsGenerated, clock, signals, caller, login, outside, runs>>

\* lines 217-252: the operator confirms; uetr and end_to_end_id are generated
ExecConfirmed ==
    /\ Idle
    /\ ~InputRejected(current_producer, weight)
    /\ runs < MaxRuns
    /\ runs' = runs + 1
    /\ \E u \in UETRS : uetr' = u
    /\ end_to_end_id' = generate_end_to_end_id(clock, idsGenerated + 2)
    /\ idsGenerated' = idsGenerated + 2
    /\ tx_hash' = NoHash
    /\ exc' = "none"
    /\ ledgerOutcome' = "none"
    /\ dialog' = NoDialog
    /\ entry' = Snapshot(TRUE)
    /\ events' = <<"ids">>
    /\ pc' = "submit"
    /\ UNCHANGED <<widget, store, ledger, ledgerCalls, unknownOutcome, clock, signals, caller, login, outside>>

\* lines 259-270 with send_xrp_payment returning a result: the ledger took the
\* transfer (its destination is a well-formed address) and reports it
\* validated or not
SendReturns(validated) ==
    /\ pc = "submit"
    /\ IsNative(currency)
    /\ validate_address(ProducerRow.xrpl_address)
    /\ LET tx_result == [hash |-> LedgerHash(Len(ledger) + 1), validated |-> validated]
       IN /\ ledger' = Append(ledger, Transfer(validated))
          /\ ledgerCalls' = ledgerCalls + 1
          /\ ledgerOutcome' = IF validated THEN "validated" ELSE "rejected"
          /\ IF SubmissionAccepted(tx_result)
                THEN /\ tx_hash' = tx_result.hash
                     /\ events' = events \o <<"ledger_call", "ledger_ok">>
                     /\ pc' = "save"
                     /\ exc' = exc
                ELSE /\ tx_hash' = tx_hash
                     /\ events' = events \o <<"ledger_call">>
                     /\ pc' = "except"
                     /\ exc' = "ledger_rejected"
    /\ UNCHANGED <<widget, uetr, end_to_end_id, store, unknownOutcome, idsGenerated, clock, dialog,
                   signals, caller, login, outside, entry, runs>>

\* send_xrp_payment raises (lines 140-141): invalid seed, a destination the
\* codec refuses, network error or timeout; a transfer to a well-formed
\* destination may have reached the ledger all the same
SendRaises(applied) ==
    /\ pc = "submit"
    /\ IsNative(currency)
    /\ applied => validate_address(ProducerRow.xrpl_address)
    /\ ledger' = IF applied THEN Append(ledger, Transfer(TRUE)) ELSE ledger
    /\ ledgerCalls' = ledgerCalls + 1
    /\ ledgerOutcome' = "exception"
    /\ unknownOutcome' = TRUE
    /\ events' = events \o <<"ledger_call">>
    /\ exc' = "ledger_exception"
    /\ pc' = "except"
    /\ UNCHANGED <<widget, uetr, end_to_end_id, tx_hash, store, idsGenerated, clock, dialog,
                   signals, caller, login, outside, entry, runs>>

\* lines 271-273: no transfer, a synthetic id from the clock
Simulate ==
    /\ pc = "submit"
    /\ ~IsNative(currency)
    /\ tx_hash' = SimulatedHash(currency, clock)
    /\ events' = events \o <<"simulated">>
    /\ pc' = "save"
    /\ UNCHANGED <<widget, uetr, end_to_end_id, exc, store, ledgerSide, idsGenerated, clock, dialog,
                   signals, caller, login, outside, entry, runs>>

\* lines 279-295: get_session, Payment(...), session.add, session.flush.  The
\* INSERT fails on a duplicate uetr or xrpl_tx_hash (IntegrityError)
AddPayment ==
    /\ pc = "save"
    /\ LET row == Payment(Cardinality(db.payments) + 1, uetr, tx_hash, token_amount,
                          currency, total_mxn, current_producer, operator.id)
       IN IF UniqueViolation(row, db.payments)
            THEN /\ exc' = "integrity"
                 /\ pc' = "except"
                 /\ UNCHANGED <<session, events>>
            ELSE /\ session' = [session EXCEPT !.flushed.payments = {row}]
                 /\ events' = events \o <<"add_payment">>
                 /\ pc' = "build"
                 /\ exc' = exc
    /\ UNCHANGED <<widget, uetr, end_to_end_id, tx_hash, db, producers, ledgerSide, idsGenerated, clock, dialog,
                   signals, caller, login, outside, entry, runs>>

\* the flush fails for a reason of the engine (database locked, disk full)
FlushFault ==
    /\ pc = "save"
    /\ exc' = "store_flush"
    /\ pc' = "except"
    /\ UNCHANGED <<widget, uetr, end_to_end_id, tx_hash, store, ledgerSide, idsGenerated, clock,
                   dialog, signals, caller, login, outside, events, entry, runs>>

\* lines 297-342: Delivery(...), session.add, the two documents are generated
\* and added; nothing is flushed (autoflush=False)
BuildRecords ==
    /\ pc = "build"
    /\ LET pid == Cardinality(db.payments) + 1
       IN session' = [session EXCEPT !.new =
                [payments |-> {},
                 deliveries |-> {Delivery(pid, weight, price, total_mxn)},
                 iso_messages |-> MessageRows(pid)]]
    /\ events' = events \o <<"add_delivery", "add_pacs008", "add_camt054">>
    /\ pc' = "commit"
    /\ UNCHANGED <<widget, locals, db, producers, ledgerSide, idsGenerated, clock, dialog,
                   signals, caller, login, outside, entry, runs>>

\* generate_pacs008 raises after the Delivery was added (lxml refuses a string
\* that is not XML compatible)
GenerationFault ==
    /\ pc = "build"
    /\ session' = [session EXCEPT !.new.deliveries =
                        {Delivery(Cardinality(db.payments) + 1, weight, price, total_mxn)}]
    /\ events' = events \o <<"add_delivery">>
    /\ exc' = "generation"
    /\ pc' = "except"
    /\ UNCHANGED <<widget, uetr, end_to_end_id, tx_hash, db, producers, ledgerSide, idsGenerated, clock, dialog,
                   signals, caller, login, outside, entry, runs>>

\* line 344: session.commit() succeeds
CommitOk ==
    /\ pc = "commit"
    /\ db' = Commit(db, session)
    /\ session' = EmptySession
    /\ events' = events \o <<"commit">>
    /\ pc' = "report"
    /\ UNCHANGED <<widget, locals, producers, ledgerSide, idsGenerated, clock, dialog,
                   signals, caller, login, outside, entry, runs>>

\* line 344: session.commit() raises; the transaction stays open and uncommitted
CommitFault ==
    /\ pc = "commit"
    /\ exc' = "store_commit"
    /\ pc' = "except"
    /\ UNCHANGED <<widget, uetr, end_to_end_id, tx_hash, store, ledgerSide, idsGenerated, clock,
                   dialog, signals, caller, login, outside, events, entry, runs>>

\* lines 346-370: success dialog, payment_completed.emit, form reset
ReportSuccess ==
    /\ pc = "report"
    /\ dialog' = SuccessDialog(tx_hash)
    /\ signals' = signals + 1
    /\ weight' = setValue(0)
    /\ events' = events \o <<"success", "signal">>
    /\ pc' = "finally"
    /\ UNCHANGED <<current_producer, price, currency, locals, store, ledgerSide,
                   idsGenerated, clock, entry, runs, caller, login, outside>>

\* lines 372-381: the one except clause of the handler
ExceptHandler ==
    /\ pc = "except"
    /\ dialog' = ErrorDialog(exc, IF exc \in {"integrity", "store_flush"}
                                    THEN {tx_hash} ELSE {})
    /\ pc' = "finally"
    /\ UNCHANGED <<widget, locals, store, ledgerSide, idsGenerated, clock, signals, caller, login, outside,
                   events, entry, runs>>

\* lines 382-384: progress.close(), close_session()
Finally ==
    /\ pc = "finally"
    /\ db' = close_session(db, session)
    /\ session' = Remove(session)
    /\ pc' = "returned"
    /\ UNCHANGED <<widget, locals, producers, ledgerSide, idsGenerated, clock, dialog,
                   signals, caller, login, outside, events, entry, runs>>

Next ==
    \/ \E p \in Producers : set_producer(p)
    \/ \E v \in WeightInputs : SetWeight(v)
    \/ \E c \in CurrencyInputs : SetCurrency(c)
    \/ Tick
    \/ ExecRejected
    \/ ExecDeclined
    \/ ExecConfirmed
    \/ \E validated \in BOOLEAN : SendReturns(validated)
    \/ \E applied \in BOOLEAN : SendRaises(applied)
    \/ Simulate
    \/ AddPayment
    \/ FlushFault
    \/ BuildRecords
    \/ GenerationFault
    \/ CommitOk
    \/ CommitFault
    \/ ReportSuccess
    \/ ExceptHandler
    \/ Finally

Spec == Init /\ [][Next]_vars

(***************************************************************************)
(* The amounts of a settlement: the same widget with the operator editing  *)
(* weight, price and currency over all their items, and the runs taken to  *)
(* their end without a fault of the store.                                 *)
(***************************************************************************)
NextAmounts ==
    \/ \E p \in Producers : set_producer(p)
    \/ \E v \in WeightInputs : SetWeight(v)
    \/ \E v \in PriceInputs : SetPrice(v)
    \/ \E c \in Currencies : SetCurrency(c)
    \/ ExecConfirmed
    \/ \E validated \in BOOLEAN : SendReturns(validated)
    \/ Simulate
    \/ AddPayment
    \/ BuildRecords
    \/ CommitOk
    \/ ReportSuccess
    \/ ExceptHandler
    \/ Finally

SpecAmounts == Init /\ [][NextAmounts]_vars

(***************************************************************************)
(* The message generator on its own: a caller holds one payment_data dict  *)
(* and calls generate_pacs008 and generate_camt054 with it, any number of  *)
(* times and at any time.                                                  *)
(***************************************************************************)

\* the dicts a caller can hold: the keys execute_payment fills, with
\* end_to_end_id present or missing
PaymentDataInputs ==
    {[uetr |-> u, end_to_end_id |-> e, amount |-> convert_mxn_to_token(a, c),
      currency |-> c, debtor_name |-> operator.full_name,
      debtor_account |-> operator.xrpl_address,
      creditor_name |-> Producer(1, Address("r", 34, 1)).name,
      creditor_account |-> Address("r", 34, 1),
      xrpl_tx_hash |-> IF IsNative(c) THEN LedgerHash(1) ELSE SimulatedHash(c, 0)] :
        u \in UETRS, e \in {Absent, generate_end_to_end_id(0, 1)},
        a \in {WeightMin * PriceDefault, 250 * 3333}, c \in CurrencyInputs}

InitGenerator ==
    /\ current_producer = None
    /\ weight = setValue(0)
    /\ price = PriceDefault
    /\ currency = "XRP"
    /\ pc = "idle"
    /\ uetr = NoUetr
    /\ end_to_end_id = NoEndToEndId
    /\ tx_hash = NoHash
    /\ exc = "none"
    /\ session = EmptySession
    /\ db = EmptyRows
    /\ producers = {Producer(1, Address("r", 34, 1))}
    /\ ledger = <<>>
    /\ ledgerCalls = 0
    /\ ledgerOutcome = "none"
    /\ unknownOutcome = FALSE
    /\ idsGenerated = 0
    /\ clock = 0
    /\ dialog = NoDialog
    /\ signals = 0
    /\ events = <<>>
    /\ entry = NoEntry
    /\ runs = 0
    /\ gen_input \in PaymentDataInputs
    /\ generated = <<>>
    /\ users = {operator}
    /\ auth = Authenticated
    /\ app = PaymentDashboard(operator.id, xrpl_seed)
    /\ exported = NoExport
    /\ issued = <<>>

\* a call of generate_pacs008(gen_input); rnd is what uuid4 gives the
\* generate_end_to_end_id() of the default argument
CallPacs008(rnd) ==
    /\ Len(generated) < MaxDocs
    /\ generated' = Append(generated,
            [kind |-> "pacs.008",
             xml |-> generate_pacs008(gen_input, generate_end_to_end_id(clock, rnd), clock)])
    /\ UNCHANGED <<widget, pc, locals, store, ledgerSide, idsGenerated, clock, dialog,
                   signals, events, entry, runs, gen_input, login, outside>>

\* a call of generate_camt054(gen_input)
CallCamt054(rnd) ==
    /\ Len(generated) < MaxDocs
    /\ generated' = Append(generated,
            [kind |-> "camt.054",
             xml |-> generate_camt054(gen_input, generate_end_to_end_id(clock, rnd), clock)])
    /\ UNCHANGED <<widget, pc, locals, store, ledgerSide, idsGenerated, clock, dialog,
                   signals, events, entry, runs, gen_input, login, outside>>

NextGenerator ==
    \/ Tick
    \/ \E rnd \in 1..NumUetr : CallPacs008(rnd)
    \/ \E rnd \in 1..NumUetr : CallCamt054(rnd)

SpecGenerator == InitGenerator /\ [][NextGenerator]_vars

(***************************************************************************)
(* Signing in and out of the payment application: main() shows             *)
(* AuthFlowDialog (auth_flow.py), whose pages are the user id (stack 0),   *)
(* the password (1) and the wallet seed (2); once it accepts, main() opens *)
(* PaymentDashboard (dashboard.py), which the operator leaves by logout or *)
(* by closing the window.  The dialog is the only writer of the users      *)
(* table here; the process ends when its last window has closed.           *)
(***************************************************************************)

\* the users table the administrator has set up: an operator who has not
\* chosen a password yet, one who has, an administrator and a deactivated
\* operator
UserRows ==
    {UserRow(1, "operator", TRUE, Null),
     UserRow(2, "operator", TRUE, hash_password(Password(2, 8))),
     UserRow(3, "admin", TRUE, hash_password(Password(2, 8))),
     UserRow(4, "operator", FALSE, Null)}

\* texts typed into id_input: four usernames, an unknown one, nothing
LoginInputs == {Login(n, 6) : n \in 1..5} \cup {Login(0, 0)}

\* texts typed into the password fields: two of 8 characters, one of 7, nothing
PasswordInputs == {Password(1, 8), Password(2, 8), Password(3, 7), Password(0, 0)}

\* texts typed into seed_input: the seeds of users 1 and 2, a text that does
\* not start with 's', a text of 24 characters, nothing
SeedInputs ==
    {Seed(1, "s", 29), Seed(2, "s", 29), Seed(6, "x", 29), Seed(7, "s", 24), Seed(0, "", 0)}

\* the row of the users table with primary key id
UserOf(id) == CHOOSE u \in users : u.id = id

InitAuth ==
    /\ WidgetStart
    /\ users = UserRows
    /\ auth = AuthFlowDialog
    /\ app = NoDashboard
    /\ gen_input = NoInput
    /\ generated = <<>>
    /\ exported = NoExport
    /\ issued = <<>>

\* verify_id (lines 206-252), the Next button of page 0
verify_id(user_id) ==
    /\ auth.result = "exec"
    /\ auth.stack = 0
    /\ LET found == {u \in users : u.username = user_id /\ u.role = "operator" /\ u.is_active}
       IN IF user_id[3] = 0
            THEN auth' = auth /\ dialog' = WarningDialog("Campo Vacio")
          ELSE IF found = {}
            THEN auth' = auth /\ dialog' = WarningDialog("Usuario No Encontrado")
          ELSE LET user == CHOOSE u \in found : TRUE
               IN /\ auth' = [auth EXCEPT !.user_db_id = user.id,
                                          !.user_xrpl_address = user.xrpl_address,
                                          !.user_password_hash = user.password_hash,
                                          !.stack = 1,
                                          !.seen.id = [user |-> user.id, role |-> user.role,
                                                       is_active |-> user.is_active]]
                  /\ dialog' = NoDialog
    /\ UNCHANGED <<widget, pc, locals, store, ledgerSide, idsGenerated, clock,
                   signals, events, entry, runs, caller, users, app, outside>>

\* the Back buttons: page 1 to page 0, page 2 to page 1
back(page) ==
    /\ auth.result = "exec"
    /\ auth.stack = page
    /\ page \in {1, 2}
    /\ auth' = [auth EXCEPT !.stack = page - 1, !.seen.went_back = TRUE]
    /\ dialog' = NoDialog
    /\ UNCHANGED <<widget, pc, locals, store, ledgerSide, idsGenerated, clock,
                   signals, events, entry, runs, caller, users, app, outside>>

\* AuthFlowDialog.verify_password (lines 315-392), the Next button of page 1:
\* a first password is chosen and stored, or the password is checked against
\* the hash verify_id read
auth_verify_password(password, password_confirm) ==
    /\ auth.result = "exec"
    /\ auth.stack = 1
    /\ IF auth.user_password_hash = Null
         THEN IF password[3] = 0 \/ password_confirm[3] = 0
                THEN /\ dialog' = WarningDialog("Campos Incompletos")
                     /\ UNCHANGED <<auth, users>>
              ELSE IF password[3] < 8
                THEN /\ dialog' = WarningDialog("Contrasena Debil")
                     /\ UNCHANGED <<auth, users>>
              ELSE IF password # password_confirm
                THEN /\ dialog' = WarningDialog("Contrasenas No Coinciden")
                     /\ UNCHANGED <<auth, users>>
              ELSE /\ users' = (users \ {UserOf(auth.user_db_id)}) \cup
                            {[UserOf(auth.user_db_id) EXCEPT
                                  !.password_hash = hash_password(password)]}
                   /\ auth' = [auth EXCEPT !.user_password_hash = hash_password(password),
                                           !.stack = 2,
                                           !.seen.password = [user |-> auth.user_db_id,
                                                              how |-> "created",
                                                              password |-> password]]
                   /\ dialog' = NoDialog
         ELSE IF password[3] = 0
                THEN /\ dialog' = WarningDialog("Campo Vacio")
                     /\ UNCHANGED <<auth, users>>
              ELSE IF ~verify_password(auth.user_password_hash, password)
                THEN /\ dialog' = WarningDialog("Contrasena Incorrecta")
                     /\ UNCHANGED <<auth, users>>
              ELSE /\ auth' = [auth EXCEPT !.stack = 2,
                                           !.seen.password = [user |-> auth.user_db_id,
                                                              how |-> "verified",
                                                              password |-> password]]
                   /\ dialog' = NoDialog
                   /\ UNCHANGED users
    /\ UNCHANGED <<widget, pc, locals, store, ledgerSide, idsGenerated, clock,
                   signals, events, entry, runs, caller, app, outside>>

\* verify_wallet (lines 394-460), the login button of page 2, and what main()
\* does when exec() returns Accepted (main_payment.py 36-54).  A text that
\* passes validate_xrpl_seed and is no seed makes get_wallet_from_seed raise,
\* which ends the handler as a wrong address does
verify_wallet(seed) ==
    /\ auth.result = "exec"
    /\ auth.stack = 2
    /\ IF seed[4] = 0
         THEN /\ dialog' = WarningDialog("Campo Vacio")
              /\ UNCHANGED <<auth, app>>
       ELSE IF ~validate_xrpl_seed(seed)
         THEN /\ dialog' = WarningDialog("Seed Invalido")
              /\ UNCHANGED <<auth, app>>
       ELSE IF get_wallet_from_seed(seed).address # auth.user_xrpl_address
         THEN /\ dialog' = WarningDialog("Direccion No Coincide")
              /\ UNCHANGED <<auth, app>>
       ELSE /\ auth' = [auth EXCEPT !.authenticated_user = auth.user_db_id,
                                    !.xrpl_seed = seed,
                                    !.result = "accepted",
                                    !.seen.wallet = [user |-> auth.user_db_id, seed |-> seed]]
            /\ app' = PaymentDashboard(auth.user_db_id, seed)
            /\ dialog' = NoDialog
    /\ UNCHANGED <<widget, pc, locals, store, ledgerSide, idsGenerated, clock,
                   signals, events, entry, runs, caller, users, outside>>

\* the dialog is dismissed (Escape, the close button): exec() returns
\* Rejected and main() exits
reject ==
    /\ auth.result = "exec"
    /\ auth' = [auth EXCEPT !.xrpl_seed = Null, !.result = "rejected"]
    /\ dialog' = NoDialog
    /\ UNCHANGED <<widget, pc, locals, store, ledgerSide, idsGenerated, clock,
                   signals, events, entry, runs, caller, users, app, outside>>

\* PaymentDashboard.closeEvent (dashboard.py 147-151)
closeEvent(window) == [window EXCEPT !.dashboard_seed = Null, !.window = "closed"]

\* PaymentDashboard.logout (dashboard.py 131-145): on Yes the seed of the
\* dashboard is cleared and close() runs closeEvent
logout(reply) ==
    /\ app.window = "open"
    /\ Idle
    /\ app' = IF reply THEN closeEvent([app EXCEPT !.dashboard_seed = Null]) ELSE app
    /\ dialog' = QuestionDialog("Confirmar Cierre de Sesion")
    /\ UNCHANGED <<widget, pc, locals, store, ledgerSide, idsGenerated, clock,
                   signals, events, entry, runs, caller, users, auth, outside>>

\* the operator closes the dashboard window
close_window ==
    /\ app.window = "open"
    /\ Idle
    /\ app' = closeEvent(app)
    /\ dialog' = NoDialog
    /\ UNCHANGED <<widget, pc, locals, store, ledgerSide, idsGenerated, clock,
                   signals, events, entry, runs, caller, users, auth, outside>>

\* the process has ended and the application is started again
\* (main_payment.py 17-36)
main ==
    /\ auth.result = "rejected" \/ app.window = "closed"
    /\ auth' = AuthFlowDialog
    /\ app' = NoDashboard
    /\ dialog' = NoDialog
    /\ UNCHANGED <<widget, pc, locals, store, ledgerSide, idsGenerated, clock,
                   signals, events, entry, runs, caller, users, outside>>

NextAuth ==
    \/ \E user_id \in LoginInputs : verify_id(user_id)
    \/ \E page \in {1, 2} : back(page)
    \/ \E password \in PasswordInputs : \E password_confirm \in PasswordInputs :
          auth_verify_password(password, password_confirm)
    \/ \E seed \in SeedInputs : verify_wallet(seed)
    \/ reject
    \/ \E reply \in BOOLEAN : logout(reply)
    \/ close_window
    \/ main

SpecAuth == InitAuth /\ [][NextAuth]_vars

(***************************************************************************)
(* The audit view of the admin application next to the payment form:       *)
(* settlements are recorded and, at any time, export_iso_messages writes   *)
(* the stored messages into one directory.                                 *)
(***************************************************************************)

\* msg.payment: the parent row of a message
ParentOf(m) == CHOOSE p \in db.payments : p.id = m.payment_id

\* the file name export_iso_messages gives a stored message
NameOf(m) == FileName(m.message_type, ParentOf(m).uetr)

\* session.query(IsoMessage).all(): the rows in the order they were inserted,
\* payment by payment, pacs.008 before camt.054
RECURSIVE InOrder(_)
InOrder(messages) ==
    IF messages = {} THEN <<>>
    ELSE LET Key(m) == 2 * m.payment_id + (IF m.message_type = "pacs.008" THEN 0 ELSE 1)
             first == CHOOSE m \in messages : \A n \in messages : Key(m) <= Key(n)
         IN <<first>> \o InOrder(messages \ {first})

\* lines 330-335: the loop over the messages, one write each
RECURSIVE WriteAll(_, _)
WriteAll(files, messages) ==
    IF messages = <<>> THEN files
    ELSE WriteAll(WriteFile(files, NameOf(Head(messages)), Head(messages).xml_content),
                  Tail(messages))

\* export_iso_messages (audit_view.py 305-350) with the directory chosen;
\* with no stored message it reports that and writes nothing
export_iso_messages ==
    /\ exported' = [files |-> WriteAll(exported.files, InOrder(db.iso_messages)),
                    of |-> db.iso_messages]
    /\ UNCHANGED <<widget, pc, locals, store, ledgerSide, idsGenerated, clock, dialog,
                   signals, events, entry, runs, caller, login, issued>>

NextExport ==
    \/ export_iso_messages
    \/ \E p \in Producers : set_producer(p)
    \/ \E c \in CurrencyInputs : SetCurrency(c)
    \/ ExecConfirmed
    \/ \E validated \in BOOLEAN : SendReturns(validated)
    \/ Simulate
    \/ AddPayment
    \/ BuildRecords
    \/ CommitOk
    \/ ReportSuccess
    \/ ExceptHandler
    \/ Finally

SpecExport == Init /\ [][NextExport]_vars

(***************************************************************************)
(* The statement generator on its own: a caller holds one statement_data   *)
(* dict and calls generate_camt053 with it, any number of times.           *)
(***************************************************************************)

\* entries of a statement's transaction list
TransactionInputs ==
    {[amount |-> convert_mxn_to_token(WeightMin * PriceDefault, "XRP"), currency |-> "XRP"],
     [amount |-> convert_mxn_to_token(250 * 3333, "USDC"), currency |-> "USDC"]}

\* the dicts a caller can hold: statement_id present or missing, and a list
\* of no, one or two transactions
StatementInputs ==
    {[statement_id |-> sid, account_id |-> operator.xrpl_address, transactions |-> txs] :
        sid \in {Absent, Uuid(1)},
        txs \in {<<>>} \cup {<<t>> : t \in TransactionInputs}
                 \cup {<<t, u>> : t \in TransactionInputs, u \in TransactionInputs}}

InitStatement ==
    /\ WidgetStart
    /\ LoggedIn
    /\ gen_input \in StatementInputs
    /\ generated = <<>>
    /\ exported = NoExport
    /\ issued = <<>>

\* a call of generate_camt053(gen_input)
CallCamt053(fresh1, fresh2) ==
    /\ Len(generated) < MaxDocs
    /\ generated' = Append(generated,
            [kind |-> "camt.053",
             xml |-> generate_camt053(gen_input, Uuid(fresh1), Uuid(fresh2), clock)])
    /\ UNCHANGED <<widget, pc, locals, store, ledgerSide, idsGenerated, clock, dialog,
                   signals, events, entry, runs, gen_input, login, outside>>

NextStatement ==
    \/ Tick
    \/ \E fresh1 \in 1..NumUetr : \E fresh2 \in 1..NumUetr : CallCamt053(fresh1, fresh2)

SpecStatement == InitStatement /\ [][NextStatement]_vars

(***************************************************************************)
(* The identifier generator on its own (iso_generator.py 22-31): a caller  *)
(* asks for transaction references and end-to-end ids, one after another.  *)
(***************************************************************************)

\* generate_uetr(): str(uuid.uuid4()); n is what uuid4 gives
generate_uetr(n) == Uuid(n)

\* a call of generate_uetr()
call_generate_uetr(n) ==
    /\ Len(issued) < MaxIds
    /\ issued' = Append(issued, [kind |-> "uetr", id |-> generate_uetr(n), at |-> clock])
    /\ UNCHANGED <<widget, pc, locals, store, ledgerSide, idsGenerated, clock, dialog,
                   signals, events, entry, runs, caller, login, exported>>

\* a call of generate_end_to_end_id(): the prefix, utcnow() to the second and
\* uuid4().hex[:8]; rnd is what uuid4 gives
call_generate_end_to_end_id(rnd) ==
    /\ Len(issued) < MaxIds
    /\ issued' = Append(issued, [kind |-> "end_to_end_id",
                                 id |-> generate_end_to_end_id(clock, rnd), at |-> clock])
    /\ UNCHANGED <<widget, pc, locals, store, ledgerSide, idsGenerated, clock, dialog,
                   signals, events, entry, runs, caller, login, exported>>

NextIdentifiers ==
    \/ Tick
    \/ \E n \in 1..NumUetr : call_generate_uetr(n)
    \/ \E rnd \in 1..NumUetr : call_generate_end_to_end_id(rnd)

SpecIdentifiers == Init /\ [][NextIdentifiers]_vars

(***************************************************************************)
(* The producer directory next to the payment form:                        *)
(* ProducerManagementWidget.save_new_producer adds rows, a selection hands *)
(* a row to set_producer, and payments are made to it.                     *)
(***************************************************************************)

\* save_new_producer (producer_view.py 247-321) with a name and an address
\* filled in: the address check, the duplicate check, then add and commit
save_new_producer(xrpl) ==
    /\ Idle
    /\ Forget
    /\ producers' =
          IF AddressAccepted(xrpl) /\ ~\E r \in producers : r.xrpl_address = xrpl
             THEN producers \cup {Producer(Cardinality(producers) + 1, xrpl)}
             ELSE producers
    /\ UNCHANGED <<widget, session, db, ledger, ledgerCalls, unknownOutcome,
                   idsGenerated, clock, signals, caller, login, outside, runs>>

NextProducers ==
    \/ \E xrpl \in AddressInputs : save_new_producer(xrpl)
    \/ \E p \in Producers : set_producer(p)
    \/ \E c \in CurrencyInputs : SetCurrency(c)
    \/ ExecConfirmed
    \/ \E validated \in BOOLEAN : SendReturns(validated)
    \/ \E applied \in BOOLEAN : SendRaises(applied)
    \/ Simulate
    \/ AddPayment
    \/ BuildRecords
    \/ CommitOk
    \/ ReportSuccess
    \/ ExceptHandler
    \/ Finally

SpecProducers == Init /\ [][NextProducers]_vars

(***************************************************************************)
(* Properties.                                                             *)
(***************************************************************************)

\* rows the committed store holds now and did not hold when the run was invoked
NewPayments == db.payments \ entry.db.payments
NewDeliveries == db.deliveries \ entry.db.deliveries
NewMessages == db.iso_messages \ entry.db.iso_messages

\* the complete row set of one settlement: the Payment of the run, its one
\* Delivery, its pacs.008 and its camt.054
CompleteRowSet ==
    \E p \in NewPayments :
        /\ NewPayments = {p}
        /\ p.uetr = uetr
        /\ Cardinality(NewDeliveries) = 1
        /\ \A d \in NewDeliveries : d.payment_id = p.id
        /\ Cardinality(NewMessages) = 2
        /\ \A m \in NewMessages : m.payment_id = p.id
        /\ {m.message_type : m \in NewMessages} = {"pacs.008", "camt.054"}

NoNewRows == NewPayments = {} /\ NewDeliveries = {} /\ NewMessages = {}

\* C1: when the ledger rejected the submission of a run (validated = false) or
\* send_xrp_payment raised, the run writes no row: the committed store is the
\* one the run found and the session holds nothing, at every step up to and
\* after the return.
C1_NoRowsOnLedgerFailure ==
    (entry.invoked /\ ledgerOutcome \in {"rejected", "exception"}) =>
        (db = entry.db /\ session = EmptySession)

\* a run has returned whose submission timed out although the ledger took the
\* transfer, over a store that already held a settlement
C1_Witness ==
    /\ pc = "returned"
    /\ ledgerOutcome = "exception"
    /\ Len(ledger) > 0
    /\ ledger[Len(ledger)].memo = uetr
    /\ db.payments # {}

\* C2: recording is atomic: at every step of a run and after its return, by
\* whatever path, the committed store has gained either the complete row set of
\* the run (Payment, Delivery, pacs.008, camt.054) or nothing.
C2_AllOrNothing ==
    entry.invoked => (NoNewRows \/ CompleteRowSet)

\* a run has returned whose commit failed after its Payment row was flushed
C2_Witness ==
    /\ pc = "returned"
    /\ exc = "store_commit"
    /\ "add_payment" \in {events[i] : i \in 1..Len(events)}
    /\ NoNewRows

\* C3: every committed XRP Payment carries a hash that the ledger returned for
\* a transfer it reports validated (whatever the status of the Payment).
C3_NativeHashValidated ==
    \A p \in db.payments :
        p.currency = "XRP" =>
            \E i \in 1..Len(ledger) :
                ledger[i].hash = p.xrpl_tx_hash /\ ledger[i].validated

\* an XRP Payment is committed while the ledger also holds a transfer it did
\* not validate
C3_Witness ==
    /\ \E p \in db.payments : p.currency = "XRP"
    /\ \E i \in 1..Len(ledger) : ~ledger[i].validated

\* C4: a run whose INSERT was refused for a duplicate after the ledger had
\* validated its transfer ends with a report that is not the report of a
\* ledger error and that hands the orphaned transfer over for reconciliation.
C4_OrphanReportedDistinctly ==
    (pc = "returned" /\ exc = "integrity" /\ ledgerOutcome = "validated") =>
        /\ dialog.title # ErrorDialog("ledger_exception", {}).title
        /\ dialog.advice # ErrorDialog("ledger_exception", {}).advice
        /\ tx_hash \in dialog.params

\* C5: once a submission ended with an unknown outcome, no step calls
\* send_xrp_payment again.  (verify_transaction, which would settle the
\* outcome, has no call site in the application, so nothing clears
\* unknownOutcome.)
C5_NoBlindRetry ==
    [][unknownOutcome => ledgerCalls' = ledgerCalls]_vars

\* C6: a run invoked without a producer or with weight <= 0 returns at once:
\* no call of the ledger client, no identifier generated, no row added to the
\* session or the store.
C6_InvalidInputTouchesNothing ==
    (entry.invoked /\ (entry.producer = None \/ entry.weight <= 0)) =>
        /\ pc = "returned"
        /\ ledgerCalls = entry.ledgerCalls
        /\ idsGenerated = entry.idsGenerated
        /\ uetr = NoUetr
        /\ db = entry.db
        /\ session = EmptySession

\* execute_payment was invoked with no producer selected and has returned
C6_Witness ==
    /\ pc = "returned"
    /\ entry.invoked
    /\ entry.producer = None
    /\ dialog.icon = "warning"

Adds == {"add_payment", "add_delivery", "add_pacs008", "add_camt054"}

Positions(e) == {i \in 1..Len(events) : events[i] = e}

\* C7: in every run, a row is added only after the ledger reported success or
\* the simulated id was made; there is at most one commit, it comes after all
\* four adds and it puts the complete row set in the store; success is
\* reported (dialog, payment_completed) only after the commit.
C7_Ordering ==
    /\ \A i \in 1..Len(events) :
          events[i] \in Adds =>
              \E j \in 1..(i - 1) : events[j] \in {"ledger_ok", "simulated"}
    /\ Cardinality(Positions("commit")) <= 1
    /\ \A i \in Positions("commit") :
          /\ \A a \in Adds : \E j \in 1..(i - 1) : events[j] = a
          /\ CompleteRowSet
    /\ \A i \in 1..Len(events) :
          events[i] \in {"success", "signal"} =>
              \E j \in 1..(i - 1) : events[j] = "commit"
    /\ dialog.icon = "information" => Positions("commit") # {}

\* a run over a real transfer has reported success and returned
C7_Witness ==
    /\ pc = "returned"
    /\ Positions("signal") # {}
    /\ Positions("ledger_ok") # {}
    /\ dialog.icon = "information"

\* C8: a committed Payment is completed exactly when its currency is XRP and
\* pending exactly when it is not.
C8_StatusByCurrency ==
    \A p \in db.payments :
        /\ p.status = "completed" <=> p.currency = "XRP"
        /\ p.status = "pending" <=> p.currency # "XRP"

\* the store holds a settlement of each kind
C8_Witness ==
    /\ \E p \in db.payments : p.currency = "XRP"
    /\ \E p \in db.payments : p.currency # "XRP"

\* C9: a run for a currency other than XRP makes no call of the ledger client,
\* and a committed Payment carries the SIMULATED_<currency>_ prefix exactly when
\* its currency is not XRP.
C9_SimulatedTagged ==
    /\ (entry.invoked /\ entry.currency # "XRP") => ledgerCalls = entry.ledgerCalls
    /\ \A p \in db.payments :
          /\ p.currency # "XRP" =>
                (p.xrpl_tx_hash[1] = "SIMULATED" /\ p.xrpl_tx_hash[2] = p.currency)
          /\ p.currency = "XRP" => p.xrpl_tx_hash[1] # "SIMULATED"

\* a simulated run has recorded its settlement and returned, after an earlier
\* run had called the ledger
C9_Witness ==
    /\ pc = "returned"
    /\ entry.currency # "XRP"
    /\ NewPayments # {}
    /\ ledgerCalls > 0

\* C10: no two committed Payments share a uetr or an xrpl_tx_hash, and a run
\* whose Payment repeats the uetr or the xrpl_tx_hash of a committed Payment
\* fails and leaves the store as it found it.
C10_UniqueIdentifiers ==
    /\ \A p, q \in db.payments :
          p # q => (p.uetr # q.uetr /\ p.xrpl_tx_hash # q.xrpl_tx_hash)
    /\ (/\ entry.invoked
        /\ pc \notin {"submit", "save"}
        /\ tx_hash # NoHash
        /\ \E r \in entry.db.payments : r.uetr = uetr \/ r.xrpl_tx_hash = tx_hash)
       => (/\ db = entry.db
           /\ session.flushed = EmptyRows
           /\ exc \in {"integrity", "store_flush"})

\* a run was refused for repeating the xrpl_tx_hash of a committed Payment
\* under a fresh uetr
C10_Witness ==
    /\ pc = "returned"
    /\ exc = "integrity"
    /\ \E r \in db.payments : r.xrpl_tx_hash = tx_hash /\ r.uetr # uetr

\* the committed Delivery and message rows of the Payment with id pid
DeliveriesOf(pid) == {d \in db.deliveries : d.payment_id = pid}
MessagesOf(pid) == {m \in db.iso_messages : m.payment_id = pid}

\* C11: every committed Payment has exactly one Delivery row and exactly two
\* message rows, one pacs.008 and one camt.054; every committed Delivery and
\* every committed message belongs to a committed Payment.
C11_OneDeliveryTwoMessages ==
    /\ \A p \in db.payments :
          /\ Cardinality(DeliveriesOf(p.id)) = 1
          /\ Cardinality(MessagesOf(p.id)) = 2
          /\ {m.message_type : m \in MessagesOf(p.id)} = {"pacs.008", "camt.054"}
    /\ \A d \in db.deliveries : \E p \in db.payments : p.id = d.payment_id
    /\ \A m \in db.iso_messages : \E p \in db.payments : p.id = m.payment_id

\* the second of two settlements has been committed
C11_Witness ==
    /\ pc = "returned"
    /\ Cardinality(db.payments) = 2
    /\ Cardinality(db.deliveries) = 2
    /\ Cardinality(db.iso_messages) = 4

\* C12: in each of the two committed messages of a Payment the UETR element
\* (and every other element that carries the reference) is the uetr of that
\* Payment, and the two messages carry the same EndToEndId.
C12_MessagesCarryReference ==
    \A p \in db.payments :
        /\ \A m \in MessagesOf(p.id) :
              /\ Text(m.xml_content, "UETR") = p.uetr
              /\ m.message_type = "pacs.008" =>
                    /\ Text(m.xml_content, "MsgId") = p.uetr
                    /\ Text(m.xml_content, "InstrId") = p.uetr
              /\ m.message_type = "camt.054" =>
                    Text(m.xml_content, "Ntfctn.Id") = p.uetr
        /\ \A m, n \in MessagesOf(p.id) :
              Text(m.xml_content, "EndToEndId") = Text(n.xml_content, "EndToEndId")

\* a run has committed its two messages, both with the end_to_end_id it
\* generated, next to the messages of an earlier settlement
C12_Witness ==
    /\ pc = "returned"
    /\ Cardinality(NewMessages) = 2
    /\ \A m \in NewMessages : Text(m.xml_content, "EndToEndId") = end_to_end_id
    /\ entry.db.iso_messages # {}

\* C13: the total_mxn of every committed Delivery with weight > 0 and
\* price > 0 is calculate_payment_total(weight_kg, price_per_kg), that is
\* round(weight * price, 2); it is a whole number of centavos.
C13_DeliveryTotalRounded ==
    \A d \in db.deliveries :
        (d.weight_kg > 0 /\ d.price_per_kg > 0) =>
            /\ d.total_mxn = calculate_payment_total(d.weight_kg, d.price_per_kg)
            /\ d.total_mxn % 100 = 0

\* C14: the amount a run hands to send_xrp_payment and the amount of every
\* committed Payment are the conversion of round(weight * price, 2) into the
\* currency of the payment, and the amount_mxn of the Payment is that rounded
\* total.
C14_AmountFromRoundedTotal ==
    /\ (pc = "save" /\ IsNative(currency)) =>
          token_amount =
              convert_mxn_to_token(calculate_payment_total(weight, price), currency)
    /\ \A p \in db.payments : \A d \in DeliveriesOf(p.id) :
          /\ p.amount =
                convert_mxn_to_token(
                    calculate_payment_total(d.weight_kg, d.price_per_kg), p.currency)
          /\ p.amount_mxn = calculate_payment_total(d.weight_kg, d.price_per_kg)

\* two documents are the same in elements, order and text, CreDtTm aside
SameButCreDtTm(x, y) ==
    /\ Len(x) = Len(y)
    /\ \A k \in 1..Len(x) :
          /\ x[k][1] = y[k][1]
          /\ x[k][1] # "CreDtTm" => x[k][2] = y[k][2]

\* C15: any two documents of one kind generated from the same payment_data,
\* with end_to_end_id present or missing, are the same in elements, order and
\* text except for CreDtTm.
C15_GeneratorDeterministic ==
    \A i, j \in 1..Len(generated) :
        generated[i].kind = generated[j].kind =>
            SameButCreDtTm(generated[i].xml, generated[j].xml)

\* the texts of a document
Texts(doc) == {doc[k][2] : k \in 1..Len(doc)}

\* the elements of either document that carry an identifier
IdentifierTags == {"MsgId", "InstrId", "EndToEndId", "UETR", "Ntfctn.Id", "XRPLTxHash"}

\* C16: every generated document holds the uetr, the end_to_end_id (when the
\* input has one) and the xrpl_tx_hash of its input, each exactly as given, and
\* every identifier element of the document is one of these input values.
C16_IdentifiersVerbatim ==
    \A i \in 1..Len(generated) :
        LET doc == generated[i].xml
        IN /\ gen_input.uetr \in Texts(doc)
           /\ gen_input.end_to_end_id # Absent => gen_input.end_to_end_id \in Texts(doc)
           /\ gen_input.xrpl_tx_hash \in Texts(doc)
           /\ \A k \in 1..Len(doc) :
                 doc[k][1] \in IdentifierTags =>
                     doc[k][2] \in {gen_input.uetr, gen_input.end_to_end_id,
                                    gen_input.xrpl_tx_hash}

\* what the columns of a committed Payment, the operator row and the producer
\* row it references give a regeneration: their values as the generators
\* write them, and the literals of the generators
DerivableTexts(p) ==
    LET prod == CHOOSE r \in producers : r.id = p.producer_id
    IN {p.uetr, <<"NTFCTN-", p.uetr>>, p.xrpl_tx_hash, Lit(p.currency), Format2(p.amount),
        operator.full_name, operator.xrpl_address, prod.name, prod.xrpl_address,
        Lit("1"), Lit("CRDT"), Lit("BOOK")}

\* C17: every text of every committed message, CreDtTm aside, is given by the
\* columns of its parent Payment or of the operator and producer that Payment
\* references, so the message can be generated again from the stored rows.
C17_ContentDerivable ==
    \A m \in db.iso_messages :
        \A p \in db.payments :
            p.id = m.payment_id =>
                \A k \in 1..Len(m.xml_content) :
                    m.xml_content[k][1] # "CreDtTm" =>
                        m.xml_content[k][2] \in DerivableTexts(p)

SeedFree(rows) ==
    /\ \A p \in rows.payments : xrpl_seed \notin {p.uetr, p.xrpl_tx_hash, p.amount}
    /\ \A m \in rows.iso_messages : xrpl_seed \notin Texts(m.xml_content)

C20_MalformedDestinationRejected ==
    (/\ entry.invoked
     /\ entry.producer # None
     /\ \E r \in producers : r.id = entry.producer /\ ~validate_address(r.xrpl_address))
    => (/\ ledgerCalls = entry.ledgerCalls
        /\ db = entry.db
        /\ session = EmptySession)

C22_PersistedImmutable ==
    [][/\ \A p \in db.payments :
            \E q \in db'.payments :
                /\ q.id = p.id
                /\ q.uetr = p.uetr
                /\ q.xrpl_tx_hash = p.xrpl_tx_hash
                /\ q.status = p.status
       /\ \A q \in db'.payments : q.status # "failed"]_vars

\* a pending Settlement of an earlier run is still there, unchanged, after a
\* later run has committed its own
C22_Witness ==
    /\ pc = "returned"
    /\ Cardinality(db.payments) = 2
    /\ \E p \in entry.db.payments : p.status = "pending" /\ p \in db.payments

C24_SessionReleased ==
    Idle => session = EmptySession

\* a run has returned through the except clause with an object added to the
\* session and never committed
C24_Witness ==
    /\ pc = "returned"
    /\ exc = "generation"
    /\ "add_delivery" \in {events[i] : i \in 1..Len(events)}
    /\ session = EmptySession

\* C27: the synthetic ledger transaction id of a simulated run differs from
\* the id of every Settlement stored before it, also when the earlier one was
\* made in the same currency and the same second, so the run is not refused
\* for a duplicate ledger transaction id
C27_SimulatedHashesDistinct ==
    (entry.invoked /\ ~IsNative(currency) /\ tx_hash # NoHash)
        => \A r \in entry.db.payments : r.xrpl_tx_hash # tx_hash

\* C28: the amount printed in a stored pacs.008 (IntrBkSttlmAmt) and in a
\* stored camt.054 (Amt) is the amount of the parent Settlement, exactly
C28_DocumentAmountIsSettlementAmount ==
    \A m \in db.iso_messages : \A p \in db.payments :
        p.id = m.payment_id =>
            LET printed == Text(m.xml_content,
                                IF m.message_type = "pacs.008" THEN "IntrBkSttlmAmt" ELSE "Amt")
            IN Frac(printed[2], 100) = p.amount

\* the texts of the elements tag of a document, in document order
TextsOf(doc, tag) ==
    LET at == SelectSeq(doc, LAMBDA e : e[1] = tag)
    IN [k \in 1..Len(at) |-> at[k][2]]

\* C26: any two camt.053 documents generated from the same statement_data,
\* with statement_id present or missing, are the same in elements, order and
\* text except for CreDtTm; in each document the message id is the statement
\* id; and each document has one entry per transaction of the input, in
\* input order
C26_StatementDeterministic ==
    /\ \A i, j \in 1..Len(generated) :
          SameButCreDtTm(generated[i].xml, generated[j].xml)
    /\ \A i \in 1..Len(generated) :
          LET doc == generated[i].xml
              txs == gen_input.transactions
          IN /\ Text(doc, "MsgId") = Text(doc, "Stmt.Id")
             /\ TextsOf(doc, "Ntry.Amt") = [k \in 1..Len(txs) |-> Format2(txs[k].amount)]
             /\ TextsOf(doc, "Ntry.Amt.Ccy") = [k \in 1..Len(txs) |-> Lit(txs[k].currency)]

\* C30: an export leaves exactly one file per message it found in the store,
\* each under the name made of the kind of the message and the reference of
\* its Settlement and with the content of that message, and no two stored
\* messages have the same file name
C30_OneFilePerMessage ==
    /\ Cardinality(exported.files) = Cardinality(exported.of)
    /\ \A m \in exported.of :
          \E f \in exported.files :
              /\ f.name = <<"file", m.message_type, ParentOf(m).uetr>>
              /\ f.content = m.xml_content
    /\ \A m, n \in db.iso_messages : m # n => NameOf(m) # NameOf(n)

\* an export has written the four messages of two recorded settlements
C30_Witness ==
    /\ Cardinality(db.payments) = 2
    /\ exported.of = db.iso_messages
    /\ Cardinality(exported.files) = 4

\* C25: once the operator has logged out or closed the dashboard, neither
\* AuthFlowDialog nor PaymentDashboard nor PaymentFlowWidget holds the seed
C25_SeedClearedEverywhere ==
    app.window = "closed" =>
        /\ auth.xrpl_seed = Null
        /\ app.dashboard_seed = Null
        /\ app.widget_seed = Null

\* C29: the dialog is on the password page or beyond only after verify_id
\* found the selected user as an active operator; it is on the seed page or
\* accepted only after the password check of that same user passed, against
\* the user's stored hash or by storing a first password of at least 8
\* characters; and it is accepted, with authenticated_user and xrpl_seed set
\* and the dashboard opened, only after the wallet of the entered seed had
\* the registered address of that same user
C29_AllChecksForOneUser ==
    LET seen == auth.seen
        past_id == auth.stack >= 1 \/ auth.result = "accepted"
        past_password == auth.stack = 2 \/ auth.result = "accepted"
    IN /\ past_id =>
            /\ seen.id.user = auth.user_db_id
            /\ seen.id.role = "operator"
            /\ seen.id.is_active
       /\ past_password =>
            /\ seen.password.user = auth.user_db_id
            /\ seen.password.how \in {"verified", "created"}
            /\ UserOf(auth.user_db_id).password_hash = hash_password(seen.password.password)
            /\ seen.password.how = "created" => seen.password.password[3] >= 8
       /\ auth.result = "accepted" =>
            /\ seen.wallet.user = auth.user_db_id
            /\ get_wallet_from_seed(seen.wallet.seed).address
                   = UserOf(auth.user_db_id).xrpl_address
            /\ auth.authenticated_user = auth.user_db_id
            /\ auth.xrpl_seed # Null => auth.xrpl_seed = seen.wallet.seed
       /\ app.window # "none" =>
            /\ auth.result = "accepted"
            /\ app.operator = auth.user_db_id

\* the dialog has accepted the second operator, after a Back button was
\* used in it; the first operator has chosen a password
C29_Witness ==
    /\ auth.result = "accepted"
    /\ auth.user_db_id = 2
    /\ auth.seen.went_back
    /\ UserOf(1).password_hash # Null
    /\ app.window = "open"

=============================================================================
